---- MODULE Spec2Model ----
(***************************************************************************)
(* A model of node-bloomd's BloomClient (src/index.js, lines 1-538) and of *)
(* its ResponseParser (src/index.js, 925-1145): the static converters, and *)
(* the stream transform on its own under ParserSpec.                       *)
(*                                                                         *)
(* One client owns one socket.  The user calls API methods; each call      *)
(* builds a command record and hands it to _process, which writes it or    *)
(* buffers it.  The bloomd server answers the written lines in order; the  *)
(* parser pushes one frame per answer; _onReadable matches frames to the   *)
(* head of commandQueue and runs the callbacks.                            *)
(*                                                                         *)
(* A line is a sequence of tokens (the text is the tokens joined by one    *)
(* space); a token may stand for a fixed multi-word text of the server     *)
(* ("Filter does not exist") none of whose words is Yes or No.             *)
(***************************************************************************)
EXTENDS Integers, Sequences, FiniteSets, TLC

(***************************************************************************)
(* Bounds of the model.                                                    *)
(***************************************************************************)
\* API calls the user makes in one run.
MaxSubmit == 2
\* Writes the socket accepts after a flush before write() returns false.
MaxRoom == 1
\* Empty lines the response stream may carry (a chunk cut between \r and \n).
MaxEmptyLines == 1
\* Replies the server may replace by an error line of its own.
MaxFaults == 1
\* The responses of one byte stream given to the parser.
MaxResponses == 2
\* The ceiling of internal errors a client is configured with.
MaxErrors == 1

(***************************************************************************)
(* Values.                                                                 *)
(***************************************************************************)
FilterName == "F"
Keys == {"k1", "k2"}
\* The key arrays the user owns, by name, with the content the user gave them.
UserArrays == {"a1"}
InitialArray(a) == <<"k1", "k2">>
\* createOptions the user may pass: none, or a capacity bloomd rejects.
NoOptions == <<>>
BadOptions == <<"capacity=100">>

FilterDoesNotExist == <<"Filter does not exist">>
Unavailable == <<"Bloomd is unavailable">>
BadArguments == <<"Client Error: Bad arguments">>
InternalError == <<"Internal Error">>

\* ResponseParser.responseTypes
BOOL == "bool"
BOOL_LIST == "boolList"
CONFIRMATION == "confirmation"

\* A frame the parser pushes: a single line, or a block of lines.
LineFrame(line) == [block |-> FALSE, body |-> <<line>>]
BlockFrame(inner) == [block |-> TRUE, body |-> inner]
EmptyFrame == LineFrame(<<>>)
FrameText(frame) == frame.body[1]
\* JavaScript truthiness of a value returned by responseParser.read(): only
\* the empty string is falsy (an array, even an empty one, is truthy).
Truthy(frame) == frame.block \/ FrameText(frame) # <<>>

\* (error, data) as handed to a callback.
NoError == [isError |-> FALSE, message |-> <<>>]
Error(text) == [isError |-> TRUE, message |-> text]
NullData == [kind |-> "null", bool |-> FALSE, map |-> {}]
BoolData(b) == [kind |-> "bool", bool |-> b, map |-> {}]
MapData(m) == [kind |-> "map", bool |-> FALSE, map |-> m]
\* The outcome of a converter: [error, data], error set when it throws.
Thrown(text) == [error |-> Error(text), data |-> NullData]
Returned(d) == [error |-> NoError, data |-> d]

\* data.split(' ') of a line: the empty text splits into one empty token.
Split(line) == IF line = <<>> THEN <<"">> ELSE line

(***************************************************************************)
(* Static converters of the ResponseParser.                                *)
(***************************************************************************)
ParseBool(line) ==
  IF line = <<"Yes">> THEN Returned(BoolData(TRUE))
  ELSE IF line = <<"No">> THEN Returned(BoolData(FALSE))
  ELSE Thrown(line)

\* results[keys[i]] = value: a later assignment to the same key replaces the
\* earlier one; keys[i] past the end of keys is the property "undefined".
MapPut(m, k, v) == {p \in m : p[1] # k} \cup {<<k, v>>}
KeyAt(keys, i) == IF i <= Len(keys) THEN keys[i] ELSE "undefined"

RECURSIVE BoolListFrom(_, _, _, _)
BoolListFrom(values, keys, i, results) ==
  IF i > Len(values) THEN results
  ELSE BoolListFrom(values, keys, i + 1,
                    MapPut(results, KeyAt(keys, i), values[i] = "Yes"))

ParseBoolList(line, keys) ==
  LET values == Split(line) IN
  IF \E i \in 1..Len(values) : values[i] \notin {"Yes", "No"}
    THEN Thrown(line)
    ELSE Returned(MapData(BoolListFrom(values, keys, 1, {})))

ParseConfirmation(line) ==
  IF line = <<"Done">> THEN Returned(BoolData(TRUE)) ELSE Thrown(line)

\* arguments.slice(2)
Slice2(args) == IF Len(args) <= 2 THEN <<>> ELSE SubSeq(args, 3, Len(args))

\* The switch of _onReadable: the converter chosen by the command's
\* responseType.  A block handed to a line converter is thrown back as the
\* error (parseBool, parseConfirmation) or fails on data.split (parseBoolList).
Decode(responseType, frame, args) ==
  IF frame.block THEN Thrown(<<"block">>)
  ELSE IF responseType = BOOL THEN ParseBool(FrameText(frame))
  ELSE IF responseType = BOOL_LIST
    THEN ParseBoolList(FrameText(frame), Slice2(args))
  ELSE IF responseType = CONFIRMATION THEN ParseConfirmation(FrameText(frame))
  ELSE Thrown(<<"Unknown response type">>)

(***************************************************************************)
(* The stream transform of the ResponseParser.  Here a text is a sequence  *)
(* of characters, and the bytes of the socket are a sequence of characters *)
(* in which CR and LF stand for \r and \n.                                 *)
(***************************************************************************)
CR == "CR"
LF == "LF"
START == <<"S", "T", "A", "R", "T">>
END == <<"E", "N", "D">>
Terminators == {<<CR, LF>>, <<CR>>, <<LF>>}

\* data.split(/\r\n|\r|\n/g) from character i on, cur being the piece under
\* way and pieces those before it: a \r with the \n behind it is one
\* separator, and the last piece is what follows the last separator.
RECURSIVE SplitLines(_, _, _, _)
SplitLines(data, i, cur, pieces) ==
  IF i > Len(data) THEN Append(pieces, cur)
  ELSE IF data[i] = CR /\ i < Len(data) /\ data[i + 1] = LF
    THEN SplitLines(data, i + 2, <<>>, Append(pieces, cur))
  ELSE IF data[i] \in {CR, LF}
    THEN SplitLines(data, i + 1, <<>>, Append(pieces, cur))
  ELSE SplitLines(data, i + 1, Append(cur, data[i]), pieces)

\* The parser as the constructor leaves it; pushed holds what push() got.
NewParser == [lines |-> <<>>, lineData |-> <<>>, blockLines |-> 1,
              pushed |-> <<>>]

\* A faulty scan: when the loop runs out it remembers the index one past
\* the line the next chunk will add.
EndIndexOneFurther(p) ==
  LET l == Len(p.lines)
      found == {i \in p.blockLines..(l - 1) : p.lines[i + 1] = END}
  IN IF found # {} THEN CHOOSE i \in found : \A j \in found : i <= j
     ELSE l + 1

\* The for loop over this.lines of a block under way: the least index i
\* (counted from 0, as the code does) with blockLines <= i < length and
\* lines[i] === 'END', or the value i has when the loop runs out.
EndIndex(p) ==
  LET l == Len(p.lines)
      found == {i \in p.blockLines..(l - 1) : p.lines[i + 1] = END}
  IN IF found # {} THEN CHOOSE i \in found : \A j \in found : i <= j
     ELSE IF p.blockLines > l THEN p.blockLines ELSE l

\* The parseLines loop.
RECURSIVE ParseLines(_)
ParseLines(p) ==
  IF p.lines = <<>> THEN p
  ELSE IF p.lines[1] = START THEN
    LET i == EndIndex(p) IN
    IF i < Len(p.lines) /\ p.lines[i + 1] = END
      THEN ParseLines([p EXCEPT
             !.pushed = Append(@, BlockFrame(SubSeq(p.lines, 2, i))),
             !.lines = SubSeq(@, i + 2, Len(@)),
             !.blockLines = 1])
      ELSE [p EXCEPT !.blockLines = i]
  ELSE ParseLines([p EXCEPT !.pushed = Append(@, LineFrame(p.lines[1])),
                            !.lines = Tail(@)])

\* A faulty _transform: the text behind the last terminator is taken for a
\* line as well.
TransformPushesPartial(p, chunk) ==
  LET split == SplitLines(p.lineData \o chunk, 1, <<>>, <<>>)
  IN ParseLines([p EXCEPT !.lineData = <<>>, !.lines = @ \o split])

\* ResponseParser.prototype._transform
Transform(p, chunk) ==
  LET split == SplitLines(p.lineData \o chunk, 1, <<>>, <<>>)
      whole == SubSeq(split, 1, Len(split) - 1)
  IN ParseLines([p EXCEPT !.lineData = split[Len(split)],
                          !.lines = @ \o whole])

\* The responses bloomd sends: a line, or a block of lines between START
\* and END; each has the frame it should become and, per line written, the
\* terminator that ends the line.
ResponseFrames == {LineFrame(<<"N", "o">>), BlockFrame(<<>>),
                   BlockFrame(<< <<"x">> >>)}
WireLines(frame) ==
  IF frame.block THEN <<START>> \o frame.body \o <<END>> ELSE frame.body
Responses ==
  UNION {{[frame |-> f, terms |-> t] :
            t \in [1..Len(WireLines(f)) -> Terminators]} : f \in ResponseFrames}

\* The bytes of a sequence of responses.
RECURSIVE BytesOfLines(_, _, _)
BytesOfLines(ls, terms, i) ==
  IF i > Len(ls) THEN <<>>
  ELSE ls[i] \o terms[i] \o BytesOfLines(ls, terms, i + 1)
RECURSIVE BytesOf(_, _)
BytesOf(rs, i) ==
  IF i > Len(rs) THEN <<>>
  ELSE BytesOfLines(WireLines(rs[i].frame), rs[i].terms, 1)
       \o BytesOf(rs, i + 1)

(***************************************************************************)
(* State.                                                                  *)
(***************************************************************************)
VARIABLES
  ready,         \* this.ready
  commandQueue,  \* this.commandQueue: records written, awaiting their response
  offlineQueue,  \* this.offlineQueue: records buffered while not ready
  commandsSent,  \* this.commandsSent
  arrays,        \* the user's key arrays (objects shared with command records)
  sock,          \* the socket: "connecting", "open", "closed" or "ended"
  room,          \* writes the socket still accepts before write() returns false
  needDrain,     \* a write returned false and the stream owes a 'drain' event
  wire,          \* history: the lines passed to stream.write, in order
  answered,      \* number of written lines the server has answered
  exists,        \* server: the filter exists
  stored,        \* server: the keys set in the filter
  emitted,       \* history: the frames the parser has pushed, in order
  nread,         \* number of frames responseParser.read() has returned
  nextSeq,       \* history: number of _process calls so far, plus one
  nextUid,       \* history: number of API calls of the user so far, plus one
  submitted,     \* history: the API calls of the user, in order
  preSeq,        \* history: number of _process calls before the connect event
  cbLog,         \* history: per command record processed by _onReadable
  userLog,       \* history: the invocations of user callbacks
  crashed,       \* an exception has escaped a handler of the client
  emptyLines,    \* empty lines the stream has carried
  faults,        \* replies the server has replaced by an error of its own
  responses,     \* the responses whose bytes the parser is given
  fed,           \* number of these bytes given to _transform so far
  lines,         \* responseParser.lines
  lineData,      \* responseParser.lineData
  blockLines     \* responseParser.blockLines

vars == <<ready, commandQueue, offlineQueue, commandsSent, arrays, sock, room,
          needDrain, wire, answered, exists, stored, emitted, nread, nextSeq,
          nextUid, submitted, preSeq, cbLog, userLog, crashed, emptyLines,
          faults, responses, fed, lines, lineData, blockLines>>

\* The parser's own state, and the state of the client and the server.
parserVars == <<responses, fed, lines, lineData, blockLines>>
clientVars == <<ready, commandQueue, offlineQueue, commandsSent, arrays, sock,
                room, needDrain, wire, answered, exists, stored, nread,
                nextSeq, nextUid, submitted, preSeq, cbLog, userLog, crashed,
                emptyLines, faults>>

\* The part of the state the client's methods read and write, as one record
\* that the operators below pass along; ret is the value last returned.
Client ==
  [ready |-> ready, commandQueue |-> commandQueue,
   offlineQueue |-> offlineQueue, commandsSent |-> commandsSent,
   arrays |-> arrays, sock |-> sock, room |-> room, needDrain |-> needDrain,
   wire |-> wire, nread |-> nread, nextSeq |-> nextSeq, cbLog |-> cbLog,
   userLog |-> userLog, crashed |-> crashed, ret |-> TRUE]

Becomes(s) ==
  /\ ready' = s.ready
  /\ commandQueue' = s.commandQueue
  /\ offlineQueue' = s.offlineQueue
  /\ commandsSent' = s.commandsSent
  /\ arrays' = s.arrays
  /\ room' = s.room
  /\ needDrain' = s.needDrain
  /\ wire' = s.wire
  /\ nextSeq' = s.nextSeq
  /\ cbLog' = s.cbLog
  /\ userLog' = s.userLog
  /\ nread' = s.nread
  /\ crashed' = s.crashed

(***************************************************************************)
(* Command records and callbacks.                                          *)
(*                                                                         *)
(* A record's arguments field is an array object: the array the user       *)
(* passed (ref names it) for bulk and multi, an array built by the method  *)
(* (inl holds it) otherwise.  seq, uid and role are history: the rank of   *)
(* the _process call, the user's API call it stems from, and its part in   *)
(* a safe sequence ("plain", "orig", "create" or "retry").                 *)
(***************************************************************************)
NoCallback == [kind |-> "none", verb |-> "", filterName |-> "", key |-> "",
               opts |-> <<>>, uid |-> 0]
UserCallback(uid) == [NoCallback EXCEPT !.kind = "user", !.uid = uid]

ArgumentsOf(s, command) ==
  IF command.ref = "" THEN command.inl ELSE s.arrays[command.ref]

\* stream.write(line): the line is handed to the socket; the value returned
\* says whether the socket takes more.  A closed socket refuses.  Each entry
\* of wire keeps, as history, the record's seq, uid and role, the caller of
\* _send, the number of user callbacks run before the write and the state
\* of the socket at the write.
StreamWrite(s, line, command, via) ==
  LET accepted == s.sock = "open" /\ s.room > 0 IN
  [s EXCEPT !.wire = Append(@, [seq |-> command.seq, uid |-> command.uid,
                                role |-> command.role, line |-> line,
                                via |-> via, calls |-> Len(s.userLog),
                                sock |-> s.sock]),
            !.room = IF @ > 0 THEN @ - 1 ELSE 0,
            !.needDrain = @ \/ (s.sock = "open" /\ s.room = 0),
            !.ret = accepted]

\* A faulty _send: a record whose write returned false is not kept in
\* commandQueue.
SendDropsRefused(s, command, via) ==
  LET w == StreamWrite(s, ArgumentsOf(s, command), command, via) IN
  [w EXCEPT !.commandsSent = @ + 1,
            !.commandQueue = IF w.ret THEN Append(@, command) ELSE @,
            !.ready = IF w.ret THEN @ ELSE FALSE]

\* A faulty _send: it leaves ready alone when the write returned false.
SendStaysReady(s, command, via) ==
  LET w == StreamWrite(s, ArgumentsOf(s, command), command, via) IN
  [w EXCEPT !.commandsSent = @ + 1,
            !.commandQueue = Append(@, command)]

\* A faulty _send: it counts a command only when the write returned true.
SendCountsAccepted(s, command, via) ==
  LET w == StreamWrite(s, ArgumentsOf(s, command), command, via) IN
  [w EXCEPT !.commandsSent = IF w.ret THEN @ + 1 ELSE @,
            !.commandQueue = Append(@, command),
            !.ready = IF w.ret THEN @ ELSE FALSE]

\* A faulty _send: unshift() for push(), the record put at the front of
\* commandQueue.
SendUnshifts(s, command, via) ==
  LET w == StreamWrite(s, ArgumentsOf(s, command), command, via) IN
  [w EXCEPT !.commandsSent = @ + 1,
            !.commandQueue = <<command>> \o @,
            !.ready = IF w.ret THEN @ ELSE FALSE]

\* BloomClient.prototype._send; via is history: the caller, "process" or
\* "drain".
Send(s, command, via) ==
  LET w == StreamWrite(s, ArgumentsOf(s, command), command, via) IN
  [w EXCEPT !.commandsSent = @ + 1,
            !.commandQueue = Append(@, command),
            !.ready = IF w.ret THEN @ ELSE FALSE]

\* A faulty _process: unshift() for push(), the record buffered at the front.
ProcessUnshifts(s, commandName, ref, inl, responseType, callback, role) ==
  LET s1 == IF ref = "" THEN s
            ELSE [s EXCEPT !.arrays[ref] = <<commandName>> \o @]
      command == [seq |-> s.nextSeq, uid |-> callback.uid, role |-> role,
                  ref |-> ref,
                  inl |-> IF ref = "" THEN <<commandName>> \o inl ELSE <<>>,
                  responseType |-> responseType, callback |-> callback]
      s2 == [s1 EXCEPT !.nextSeq = @ + 1]
  IN IF s2.ready THEN Send(s2, command, "process")
     ELSE [s2 EXCEPT !.offlineQueue = <<command>> \o @]

\* A faulty _process: it sends whether the client is ready or not.
ProcessAlwaysSends(s, commandName, ref, inl, responseType, callback, role) ==
  LET s1 == IF ref = "" THEN s
            ELSE [s EXCEPT !.arrays[ref] = <<commandName>> \o @]
      command == [seq |-> s.nextSeq, uid |-> callback.uid, role |-> role,
                  ref |-> ref,
                  inl |-> IF ref = "" THEN <<commandName>> \o inl ELSE <<>>,
                  responseType |-> responseType, callback |-> callback]
      s2 == [s1 EXCEPT !.nextSeq = @ + 1]
  IN Send(s2, command, "process")

\* A faulty _process: no else, the record is buffered even when sent.
ProcessFallsThrough(s, commandName, ref, inl, responseType, callback, role) ==
  LET s1 == IF ref = "" THEN s
            ELSE [s EXCEPT !.arrays[ref] = <<commandName>> \o @]
      command == [seq |-> s.nextSeq, uid |-> callback.uid, role |-> role,
                  ref |-> ref,
                  inl |-> IF ref = "" THEN <<commandName>> \o inl ELSE <<>>,
                  responseType |-> responseType, callback |-> callback]
      s2 == [s1 EXCEPT !.nextSeq = @ + 1]
      s3 == IF s2.ready THEN Send(s2, command, "process") ELSE s2
  IN [s3 EXCEPT !.offlineQueue = Append(@, command)]

\* BloomClient.prototype._process.  args.unshift(commandName) changes the
\* array it is given: the user's own array when ref names one.
Process(s, commandName, ref, inl, responseType, callback, role) ==
  LET s1 == IF ref = "" THEN s
            ELSE [s EXCEPT !.arrays[ref] = <<commandName>> \o @]
      command == [seq |-> s.nextSeq, uid |-> callback.uid, role |-> role,
                  ref |-> ref,
                  inl |-> IF ref = "" THEN <<commandName>> \o inl ELSE <<>>,
                  responseType |-> responseType, callback |-> callback]
      s2 == [s1 EXCEPT !.nextSeq = @ + 1]
  IN IF s2.ready THEN Send(s2, command, "process")
     ELSE [s2 EXCEPT !.offlineQueue = Append(@, command)]

\* A faulty _drain: an if for the while, one record sent per pass.
DrainSendsOne(s) ==
  IF s.offlineQueue = <<>> THEN [s EXCEPT !.ready = TRUE]
  ELSE LET s1 == Send([s EXCEPT !.offlineQueue = Tail(@)],
                      Head(s.offlineQueue), "drain")
       IN IF ~s1.ret THEN s1 ELSE [s1 EXCEPT !.ready = TRUE]

\* A faulty _drain: it does not look at what _send returns.
RECURSIVE DrainIgnoresFull(_)
DrainIgnoresFull(s) ==
  IF s.offlineQueue = <<>> THEN [s EXCEPT !.ready = TRUE]
  ELSE DrainIgnoresFull(Send([s EXCEPT !.offlineQueue = Tail(@)],
                             Head(s.offlineQueue), "drain"))

\* A faulty _drain: it sets ready also when it stops at a full buffer.
RECURSIVE DrainReadyAnyway(_)
DrainReadyAnyway(s) ==
  IF s.offlineQueue = <<>> THEN [s EXCEPT !.ready = TRUE]
  ELSE LET s1 == Send([s EXCEPT !.offlineQueue = Tail(@)],
                      Head(s.offlineQueue), "drain")
       IN IF ~s1.ret THEN [s1 EXCEPT !.ready = TRUE] ELSE DrainReadyAnyway(s1)

\* A faulty _drain: pop() for shift(), the newest buffered record first.
RECURSIVE DrainNewestFirst(_)
DrainNewestFirst(s) ==
  IF s.offlineQueue = <<>> THEN [s EXCEPT !.ready = TRUE]
  ELSE LET n == Len(s.offlineQueue)
           s1 == Send([s EXCEPT !.offlineQueue = SubSeq(@, 1, n - 1)],
                      s.offlineQueue[n], "drain")
       IN IF ~s1.ret THEN s1 ELSE DrainNewestFirst(s1)

\* BloomClient.prototype._drain
RECURSIVE Drain(_)
Drain(s) ==
  IF s.offlineQueue = <<>> THEN [s EXCEPT !.ready = TRUE]
  ELSE LET s1 == Send([s EXCEPT !.offlineQueue = Tail(@)],
                      Head(s.offlineQueue), "drain")
       IN IF ~s1.ret THEN s1 ELSE Drain(s1)

(***************************************************************************)
(* The API: one method per verb, and the safe versions built by _makeSafe. *)
(***************************************************************************)
\* A faulty create: it is sent at once, past the commands that wait in
\* offlineQueue.
CreateSentAtOnce(s, filterName, options, callback, role) ==
  ProcessAlwaysSends(s, "create", "", <<filterName>> \o options, CONFIRMATION,
                     callback, role)

\* BloomClient.prototype.create; options holds the key=value tokens.
Create(s, filterName, options, callback, role) ==
  Process(s, "create", "", <<filterName>> \o options, CONFIRMATION, callback,
          role)

\* BloomClient.prototype.drop
Drop(s, filterName, callback) ==
  Process(s, "drop", "", <<filterName>>, CONFIRMATION, callback, "plain")

\* BloomClient.prototype.check
Check(s, filterName, key, callback, role) ==
  Process(s, "c", "", <<filterName, key>>, BOOL, callback, role)

\* BloomClient.prototype.set
Set(s, filterName, key, callback, role) ==
  Process(s, "s", "", <<filterName, key>>, BOOL, callback, role)

\* keys.unshift(filterName), on the array the caller passed.
Unshift(s, keys, filterName) == [s EXCEPT !.arrays[keys] = <<filterName>> \o @]

\* BloomClient.prototype.multi
Multi(s, filterName, keys, callback, role) ==
  Process(Unshift(s, keys, filterName), "m", keys, <<>>, BOOL_LIST, callback,
          role)

\* BloomClient.prototype.bulk
Bulk(s, filterName, keys, callback, role) ==
  Process(Unshift(s, keys, filterName), "b", keys, <<>>, BOOL_LIST, callback,
          role)

\* command.apply(self, args) in _makeSafe, args being [filterName, key or
\* keys, interceptor]: the same args array, holding the same keys array, at
\* the first submission and at the resubmission.
Apply(s, verb, filterName, key, callback, role) ==
  IF verb = "set" THEN Set(s, filterName, key, callback, role)
  ELSE IF verb = "check" THEN Check(s, filterName, key, callback, role)
  ELSE IF verb = "bulk" THEN Bulk(s, filterName, key, callback, role)
  ELSE Multi(s, filterName, key, callback, role)

\* The function _makeSafe returns, called as xSafe(filterName, key, callback)
\* or xSafe(filterName, key, callback, createOptions).
SafeCallback(verb, filterName, key, opts, uid) ==
  [kind |-> "safe", verb |-> verb, filterName |-> filterName, key |-> key,
   opts |-> opts, uid |-> uid]

MakeSafe(s, verb, filterName, key, uid, createOptions) ==
  Apply(s, verb, filterName, key,
        SafeCallback(verb, filterName, key, createOptions, uid), "orig")

\* The interceptor where a filter name is expected, as args.join(' ') writes
\* it, and undefined, which join writes as the empty text.
Interceptor == "function(originalError, originalData)"
Undefined == ""

\* The function _makeSafe returns, called as xSafe(filterName, key): the
\* last argument is no Function, so createOptions = args.pop() takes key and
\* callback = args.pop() takes filterName; args, now empty, gets the
\* interceptor, and the command is applied to it alone.  Its filterName is
\* the interceptor, its key and its callback are undefined: set and check
\* hand that to _process, bulk and multi throw a TypeError at keys.unshift
\* and the call returns by that exception.  uid is history.
MakeSafeNoCallback(s, verb, filterName, key, uid) ==
  IF verb \in {"bulk", "multi"} THEN s
  ELSE Apply(s, verb, Interceptor, Undefined, [NoCallback EXCEPT !.uid = uid],
             "orig")

(***************************************************************************)
(* Callbacks.                                                              *)
(***************************************************************************)
\* The user's callback: it records what it was called with.
InvokeUser(s, uid, error, data) ==
  [s EXCEPT !.userLog = Append(@, [uid |-> uid, error |-> error,
                                   data |-> data])]

\* A faulty interceptor: no else, the user callback runs after the create
\* has been submitted as well.
SafeInterceptNoElse(s, cb, originalError, originalData) ==
  LET s1 == IF originalError.isError
                 /\ originalError.message = FilterDoesNotExist
              THEN Create(s, cb.filterName, cb.opts,
                          [cb EXCEPT !.kind = "safeCreate"], "create")
              ELSE s
  IN InvokeUser(s1, cb.uid, originalError, originalData)

\* A faulty interceptor: it creates the filter on any error.
SafeInterceptAnyError(s, cb, originalError, originalData) ==
  IF originalError.isError
    THEN Create(s, cb.filterName, cb.opts, [cb EXCEPT !.kind = "safeCreate"],
                "create")
    ELSE InvokeUser(s, cb.uid, originalError, originalData)

\* The callback of _makeSafe that catches the response to the original
\* command (and, being the same function, to the resubmitted one).
SafeIntercept(s, cb, originalError, originalData) ==
  IF originalError.isError /\ originalError.message = FilterDoesNotExist
    THEN Create(s, cb.filterName, cb.opts, [cb EXCEPT !.kind = "safeCreate"],
                "create")
    ELSE InvokeUser(s, cb.uid, originalError, originalData)

\* A faulty create callback: it hands the user the original error.
SafeCreatedOriginalError(s, cb, createError, createData) ==
  IF createError.isError
    THEN InvokeUser(s, cb.uid, Error(FilterDoesNotExist), createData)
    ELSE Apply(s, cb.verb, cb.filterName, cb.key,
               [cb EXCEPT !.kind = "safe"], "retry")

\* The callback of _makeSafe that catches the response to the create.
SafeCreated(s, cb, createError, createData) ==
  IF createError.isError
    THEN InvokeUser(s, cb.uid, createError, createData)
    ELSE Apply(s, cb.verb, cb.filterName, cb.key,
               [cb EXCEPT !.kind = "safe"], "retry")

\* A faulty end of the loop: after an error the record behind the failing
\* one is dropped from commandQueue.
InvokeDropsNext(s, cb, error, data) ==
  LET s0 == IF error.isError /\ s.commandQueue # <<>>
              THEN [s EXCEPT !.commandQueue = Tail(@)] ELSE s
  IN IF cb.kind = "none" THEN s0
     ELSE IF cb.kind = "user" THEN InvokeUser(s0, cb.uid, error, data)
     ELSE IF cb.kind = "safe" THEN SafeIntercept(s0, cb, error, data)
     ELSE SafeCreated(s0, cb, error, data)

\* command.callback(error, data); callbacks are optional.
Invoke(s, cb, error, data) ==
  IF cb.kind = "none" THEN s
  ELSE IF cb.kind = "user" THEN InvokeUser(s, cb.uid, error, data)
  ELSE IF cb.kind = "safe" THEN SafeIntercept(s, cb, error, data)
  ELSE SafeCreated(s, cb, error, data)

\* BloomClient.prototype._onReadable, pushed being the frames the parser has
\* pushed so far.  read() hands out the oldest frame not yet read, or null;
\* an empty line is a frame like any other to read(), and false to the
\* while.  With no record in commandQueue, command is
\* undefined: the switch throws inside the try, command.callback outside it.
RECURSIVE OnReadableLoop(_, _)
OnReadableLoop(s, pushed) ==
  IF s.nread = Len(pushed) THEN s
  ELSE
    LET response == pushed[s.nread + 1]
        s1 == [s EXCEPT !.nread = @ + 1]
    IN IF ~Truthy(response) THEN s1
       ELSE IF s1.commandQueue = <<>> THEN [s1 EXCEPT !.crashed = TRUE]
       ELSE
         LET command == Head(s1.commandQueue)
             s2 == [s1 EXCEPT !.commandQueue = Tail(@)]
             r == Decode(command.responseType, response,
                         ArgumentsOf(s2, command))
             s3 == [s2 EXCEPT !.cbLog =
                      Append(@, [seq |-> command.seq, uid |-> command.uid,
                                 role |-> command.role, frame |-> s1.nread,
                                 error |-> r.error, data |-> r.data])]
         IN OnReadableLoop(Invoke(s3, command.callback, r.error, r.data),
                           pushed)

(***************************************************************************)
(* The bloomd server: it answers the written lines in order, one line per  *)
(* command here (create, drop, s, c, b, m).                                *)
(***************************************************************************)
LineFilter(line) == IF Len(line) >= 2 THEN line[2] ELSE ""
LineKeys(line) == Slice2(line)

\* Setting keys one after the other: Yes for a key newly set.
RECURSIVE SetTokens(_, _, _)
SetTokens(keys, i, have) ==
  IF i > Len(keys) THEN <<>>
  ELSE <<IF keys[i] \in have THEN "No" ELSE "Yes">>
       \o SetTokens(keys, i + 1, have \cup {keys[i]})

\* Checking keys: Yes for a key that is set.
CheckTokens(keys, have) ==
  [i \in 1..Len(keys) |-> IF keys[i] \in have THEN "Yes" ELSE "No"]

ServerAnswer(line, have, members) ==
  LET verb == line[1]
      here == have /\ LineFilter(line) = FilterName
      keys == LineKeys(line)
      same == [reply |-> <<>>, exists |-> have, members |-> members]
  IN IF verb = "create" THEN
       IF \E i \in 1..Len(line) : line[i] = BadOptions[1]
         THEN [same EXCEPT !.reply = BadArguments]
       ELSE IF here THEN [same EXCEPT !.reply = <<"Exists">>]
       ELSE [reply |-> <<"Done">>, exists |-> TRUE, members |-> {}]
     ELSE IF ~here THEN [same EXCEPT !.reply = FilterDoesNotExist]
     ELSE IF verb = "drop"
       THEN [reply |-> <<"Done">>, exists |-> FALSE, members |-> {}]
     ELSE IF keys = <<>> THEN [same EXCEPT !.reply = BadArguments]
     ELSE IF verb \in {"s", "b"}
       THEN [same EXCEPT !.reply = SetTokens(keys, 1, members),
                         !.members = @ \cup {keys[i] : i \in 1..Len(keys)}]
     ELSE [same EXCEPT !.reply = CheckTokens(keys, members)]

(***************************************************************************)
(* The user's API calls.                                                   *)
(***************************************************************************)
Call(api, key, opts) ==
  [api |-> api, key |-> key, opts |-> opts, callback |-> TRUE]

UserCalls ==
  {Call(api, "k1", NoOptions) : api \in {"set", "check", "checkSafe"}}
  \cup {Call("setSafe", "k1", o) : o \in {NoOptions, BadOptions}}
  \cup {Call(api, a, NoOptions) :
          api \in {"bulk", "multi", "bulkSafe", "multiSafe"}, a \in UserArrays}
  \cup {Call("create", "", NoOptions), Call("drop", "", NoOptions)}

SafeVerb(api) ==
  IF api = "setSafe" THEN "set"
  ELSE IF api = "checkSafe" THEN "check"
  ELSE IF api = "bulkSafe" THEN "bulk"
  ELSE "multi"

\* The safe calls made without a callback: setSafe(F, K), bulkSafe(F, keys).
BareCalls ==
  {[Call("setSafe", "k1", NoOptions) EXCEPT !.callback = FALSE]}
  \cup {[Call("bulkSafe", a, NoOptions) EXCEPT !.callback = FALSE] :
          a \in UserArrays}

\* One API call on FilterName, with a callback of the user's unless the
\* call is one of BareCalls.
Submitted(s, call, uid) ==
  IF ~call.callback
    THEN MakeSafeNoCallback(s, SafeVerb(call.api), FilterName, call.key, uid)
  ELSE IF call.api = "create"
    THEN Create(s, FilterName, call.opts, UserCallback(uid), "plain")
  ELSE IF call.api = "drop" THEN Drop(s, FilterName, UserCallback(uid))
  ELSE IF call.api \in {"set", "check", "bulk", "multi"}
    THEN Apply(s, call.api, FilterName, call.key, UserCallback(uid), "plain")
  ELSE MakeSafe(s, SafeVerb(call.api), FilterName, call.key, uid, call.opts)

(***************************************************************************)
(* Initial state and actions.                                              *)
(***************************************************************************)
\* The client and the server at the start.
ClientInit ==
  /\ ready = FALSE
  /\ commandQueue = <<>>
  /\ offlineQueue = <<>>
  /\ commandsSent = 0
  /\ arrays = [a \in UserArrays |-> InitialArray(a)]
  /\ sock = "connecting"
  /\ room \in 0..MaxRoom
  /\ needDrain = FALSE
  /\ wire = <<>>
  /\ answered = 0
  /\ exists \in BOOLEAN
  /\ stored = {}
  /\ emitted = <<>>
  /\ nread = 0
  /\ nextSeq = 1
  /\ nextUid = 1
  /\ submitted = <<>>
  /\ preSeq = 0
  /\ cbLog = <<>>
  /\ userLog = <<>>
  /\ crashed = FALSE
  /\ emptyLines = 0
  /\ faults = 0

\* The parser of a new client, which has been given nothing.
ParserNew ==
  /\ fed = 0
  /\ lines = NewParser.lines
  /\ lineData = NewParser.lineData
  /\ blockLines = NewParser.blockLines

Init == ClientInit /\ responses = <<>> /\ ParserNew

ServerUnchanged == UNCHANGED <<answered, exists, stored, emitted, faults,
                               emptyLines>>

\* The user calls an API method.
Submit(call) ==
  /\ ~crashed
  /\ UNCHANGED parserVars
  /\ nextUid <= MaxSubmit
  /\ Becomes(Submitted(Client, call, nextUid))
  /\ nextUid' = nextUid + 1
  /\ submitted' = Append(submitted, call)
  /\ ServerUnchanged
  /\ UNCHANGED <<sock, preSeq>>

\* stream 'connect': _onConnect
OnConnect ==
  /\ ~crashed
  /\ UNCHANGED parserVars
  /\ sock = "connecting"
  /\ sock' = "open"
  /\ Becomes(Drain([Client EXCEPT !.sock = "open"]))
  /\ preSeq' = nextSeq - 1
  /\ ServerUnchanged
  /\ UNCHANGED <<nextUid, submitted>>

\* stream 'drain': _drain.  The socket has flushed what it held.
OnDrain ==
  /\ ~crashed
  /\ UNCHANGED parserVars
  /\ sock = "open"
  /\ needDrain
  /\ Becomes(Drain([Client EXCEPT !.room = MaxRoom, !.needDrain = FALSE]))
  /\ ServerUnchanged
  /\ UNCHANGED <<sock, nextUid, submitted, preSeq>>

\* stream 'error', 'close' or 'end': _onError, _connectionClosed.  Neither
\* touches ready or a queue.
ConnectionClosed(reason) ==
  /\ ~crashed
  /\ UNCHANGED parserVars
  /\ sock \in {"connecting", "open"}
  /\ sock' = "closed"
  /\ Becomes(Client)
  /\ ServerUnchanged
  /\ UNCHANGED <<nextUid, submitted, preSeq>>

\* BloomClient.prototype.dispose: stream.end().  The stream is ended by the
\* client; here no event of the stream follows.
Dispose ==
  /\ ~crashed
  /\ UNCHANGED parserVars
  /\ sock \in {"connecting", "open"}
  /\ sock' = "ended"
  /\ Becomes(Client)
  /\ ServerUnchanged
  /\ UNCHANGED <<nextUid, submitted, preSeq>>

\* The server answers the next n unanswered lines, the first of them with
\* an error of its own when fault; frames are the frames of these answers.
RECURSIVE Answers(_, _, _, _, _)
Answers(n, fault, have, keys, frames) ==
  IF n = 0 THEN [exists |-> have, members |-> keys, frames |-> frames]
  ELSE
    LET line == wire[answered + Len(frames) + 1].line
        a == ServerAnswer(line, have, keys)
    IN IF fault
         THEN Answers(n - 1, FALSE, have, keys,
                      Append(frames, LineFrame(InternalError)))
         ELSE Answers(n - 1, FALSE, a.exists, a.members,
                      Append(frames, LineFrame(a.reply)))

\* socket data: a chunk with the server's answers to the next n unanswered
\* lines arrives, _transform pushes their frames, and the 'readable' event
\* runs _onReadable.  When cut, the chunk before ended between the \r and
\* the \n of a terminator, so that the split of this one starts with an
\* empty line, which _transform pushes first.
OnData(n, cut, fault) ==
  /\ ~crashed
  /\ UNCHANGED parserVars
  /\ sock = "open"
  /\ n \in 1..(Len(wire) - answered)
  /\ fault => faults < MaxFaults
  /\ cut => /\ emptyLines < MaxEmptyLines
            /\ emitted # <<>>
  /\ LET a == Answers(n, fault, exists, stored, <<>>)
         pushed == emitted \o (IF cut THEN <<EmptyFrame>> ELSE <<>>) \o a.frames
     IN /\ emitted' = pushed
        /\ exists' = a.exists
        /\ stored' = a.members
        /\ Becomes(OnReadableLoop(Client, pushed))
  /\ answered' = answered + n
  /\ faults' = IF fault THEN faults + 1 ELSE faults
  /\ emptyLines' = IF cut THEN emptyLines + 1 ELSE emptyLines
  /\ UNCHANGED <<sock, nextUid, submitted, preSeq>>

\* A chunk cut at line ends.
Data == \E n \in 1..Len(wire), fault \in BOOLEAN : OnData(n, FALSE, fault)

\* A chunk cut inside a terminator.
CutData == \E n \in 1..Len(wire), fault \in BOOLEAN : OnData(n, TRUE, fault)

\* The client with a connection that stays up once made and a server whose
\* terminators are never cut in two.
Next ==
  \/ \E call \in UserCalls : Submit(call)
  \/ OnConnect
  \/ OnDrain
  \/ Data

Spec == Init /\ [][Next]_vars

\* The same with a stream 'drain' event after every write that returned false.
LiveSpec == Spec /\ WF_vars(OnDrain)

\* The client with any connection: terminators cut in two, loss, and
\* dispose.
NextEnv ==
  \/ Next
  \/ CutData
  \/ \E reason \in {"error", "close", "end"} : ConnectionClosed(reason)
  \/ Dispose

EnvSpec == Init /\ [][NextEnv]_vars

\* The same with a server that listens: a connection attempt under way is
\* accepted, the lines written are answered, and the stream emits drain
\* after a write that returned false.
EnvLiveSpec ==
  EnvSpec /\ WF_vars(OnConnect) /\ WF_vars(OnDrain) /\ WF_vars(Data)

\* socket data that answers no command: the peer sends a line or a block
\* nothing has asked for, _transform pushes its frame, and the 'readable'
\* event runs _onReadable.
StrayFrames == {LineFrame(<<"Yes">>), BlockFrame(<<>>)}

StrayData(frame) ==
  /\ ~crashed
  /\ UNCHANGED parserVars
  /\ sock = "open"
  /\ LET pushed == Append(emitted, frame) IN
       /\ emitted' = pushed
       /\ Becomes(OnReadableLoop(Client, pushed))
  /\ UNCHANGED <<answered, exists, stored, faults, emptyLines, sock, nextUid,
                 submitted, preSeq>>

\* The client with a peer that may send more than it was asked for.
NextStray ==
  \/ Next
  \/ \E frame \in StrayFrames : StrayData(frame)

StraySpec == Init /\ [][NextStray]_vars

\* The client with a user who also makes safe calls without a callback.
NextBare ==
  \/ Next
  \/ \E call \in BareCalls : Submit(call)

BareSpec == Init /\ [][NextBare]_vars

(***************************************************************************)
(* The parser alone, given the bytes of a sequence of responses in chunks  *)
(* cut anywhere.                                                           *)
(***************************************************************************)
Bytes == BytesOf(responses, 1)
Parser == [lines |-> lines, lineData |-> lineData, blockLines |-> blockLines,
           pushed |-> emitted]

\* The byte streams: one to MaxResponses responses.
Inputs == UNION {[1..n -> Responses] : n \in 1..MaxResponses}

ParserInit ==
  /\ ClientInit
  /\ room = MaxRoom
  /\ ~exists
  /\ responses \in Inputs
  /\ ParserNew

\* socket data: the next n bytes arrive as one chunk.
OnChunk(n) ==
  /\ n \in 1..(Len(Bytes) - fed)
  /\ LET p == Transform(Parser, SubSeq(Bytes, fed + 1, fed + n)) IN
       /\ lines' = p.lines
       /\ lineData' = p.lineData
       /\ blockLines' = p.blockLines
       /\ emitted' = p.pushed
  /\ fed' = fed + n
  /\ UNCHANGED <<responses, clientVars>>

ParserNext == \E n \in 1..Len(Bytes) : OnChunk(n)

ParserSpec == ParserInit /\ [][ParserNext]_vars

(***************************************************************************)
(* Properties.                                                             *)
(***************************************************************************)
SafeApis == {"setSafe", "checkSafe", "bulkSafe", "multiSafe"}
IsSafeCall(u) == submitted[u].api \in SafeApis
\* The invocations of the user callback of call u, the writes made for it,
\* and the records processed for it in a given role.
UserCallsOf(u) == {e \in 1..Len(userLog) : userLog[e].uid = u}
WritesOf(u) == {j \in 1..Len(wire) : wire[j].uid = u}
Processed(u, role) ==
  {k \in 1..Len(cbLog) : cbLog[k].uid = u /\ cbLog[k].role = role}
IsMissing(error) == error.isError /\ error.message = FilterDoesNotExist

\* C1: FIFO matching: the i-th record processed by _onReadable is the i-th
\* command written, and the frame it is decoded from is the i-th frame the
\* parser emitted.
C1_FifoMatching ==
  \A k \in 1..Len(cbLog) : cbLog[k].seq = wire[k].seq /\ cbLog[k].frame = k

\* C2: wire order equals submission order: the i-th line written is that of
\* the i-th call of _process, so no command is written before one submitted
\* earlier, whatever the connect event, full buffers and drain events do.
C2_WireOrder == \A i \in 1..Len(wire) : wire[i].seq = i

\* A command written by _process after a full buffer, then one by _drain.
C2_Witness ==
  \E i \in 1..Len(wire), j \in 1..Len(wire) :
    /\ i < j
    /\ wire[i].via = "process"
    /\ wire[j].via = "drain"
    /\ preSeq < wire[i].seq

\* C3: a command submitted after a safe command on the filter is written
\* only once the user callback of that safe command has been invoked.
C3_HeldBehindSafe ==
  \A j \in 1..Len(wire) : \A u \in 1..(wire[j].uid - 1) :
    IsSafeCall(u) => \E e \in 1..wire[j].calls : userLog[e].uid = u

\* C4: user callbacks are invoked in the order of the calls they belong to.
C4_UserCallbackOrder ==
  \A e \in 1..Len(userLog), f \in 1..Len(userLog) :
    e < f => userLog[e].uid <= userLog[f].uid

\* C5: no user callback is invoked twice, and once the socket is lost every
\* call made so far has had its user callback invoked.
C5_ExactlyOnce ==
  /\ \A u \in 1..Len(submitted) : Cardinality(UserCallsOf(u)) <= 1
  /\ sock = "closed" =>
       \A u \in 1..Len(submitted) : Cardinality(UserCallsOf(u)) = 1

\* What offline buffering keeps true in every state: before the connect
\* event nothing is written and offlineQueue holds every command submitted,
\* in order; the commands submitted before the connect event are written in
\* submission order, and the callbacks of their records run in that order.
OfflineBuffered ==
  /\ sock = "connecting" =>
       /\ wire = <<>>
       /\ ~ready
       /\ Len(offlineQueue) = nextSeq - 1
       /\ \A i \in 1..Len(offlineQueue) : offlineQueue[i].seq = i
  /\ \A i \in 1..Len(wire) : wire[i].seq <= preSeq => wire[i].seq = i
  /\ \A k \in 1..Len(cbLog), l \in 1..Len(cbLog) :
       k < l /\ cbLog[l].seq <= preSeq => cbLog[k].seq < cbLog[l].seq

C7_SafeCreateSequence ==
  \A u \in 1..Len(submitted) :
    ( /\ IsSafeCall(u)
      /\ UserCallsOf(u) # {}
      /\ \E k \in Processed(u, "orig") : IsMissing(cbLog[k].error)
      /\ \E k \in Processed(u, "create") : ~cbLog[k].error.isError )
    => /\ Cardinality(WritesOf(u)) = 3
       /\ \E i \in WritesOf(u), j \in WritesOf(u), l \in WritesOf(u) :
            /\ i < j /\ j < l
            /\ wire[j].line = <<"create", FilterName>> \o submitted[u].opts
            /\ wire[l].line = wire[i].line
       /\ Cardinality(UserCallsOf(u)) = 1
       /\ \A e \in UserCallsOf(u) : \E k \in Processed(u, "retry") :
            userLog[e].error = cbLog[k].error /\ userLog[e].data = cbLog[k].data

\* C8: the line written at the resubmission is the line written at first,
\* and the map given to the user of a key array is keyed by the user's keys.
C8_ResubmitsOriginal ==
  /\ \A j \in 1..Len(wire) :
       wire[j].role = "retry" =>
         \E i \in 1..(j - 1) :
           /\ wire[i].uid = wire[j].uid
           /\ wire[i].role = "orig"
           /\ wire[i].line = wire[j].line
  /\ \A e \in 1..Len(userLog) :
       ( /\ IsSafeCall(userLog[e].uid)
         /\ userLog[e].data.kind = "map"
         /\ \A v \in 1..Len(submitted) :
              v # userLog[e].uid => submitted[v].key \notin UserArrays )
       => {p[1] : p \in userLog[e].data.map} = Keys

\* C9: when the create of a safe call fails with error E, the user callback
\* has been invoked exactly once, with E and no data; E is not 'Filter does
\* not exist', and the command is not written again.
C9_CreateFailureSurfaced ==
  \A k \in 1..Len(cbLog) :
    (cbLog[k].role = "create" /\ cbLog[k].error.isError) =>
      /\ Cardinality(UserCallsOf(cbLog[k].uid)) = 1
      /\ \A e \in UserCallsOf(cbLog[k].uid) :
           /\ userLog[e].error = cbLog[k].error
           /\ userLog[e].data = NullData
           /\ ~IsMissing(userLog[e].error)
      /\ \A j \in WritesOf(cbLog[k].uid) : wire[j].seq <= cbLog[k].seq

\* A setSafe with a capacity bloomd rejects, on a missing filter.
C9_Witness ==
  \E k \in 1..Len(cbLog) :
    /\ cbLog[k].role = "create"
    /\ cbLog[k].error = Error(BadArguments)
    /\ \E o \in Processed(cbLog[k].uid, "orig") : IsMissing(cbLog[o].error)
    /\ \E e \in UserCallsOf(cbLog[k].uid) :
         userLog[e].error = Error(BadArguments)

\* C10: a safe call whose first response is not the error 'Filter does not
\* exist' has had its user callback invoked once, with that response, and
\* has made one write: commandsSent counts the writes.
C10_SafeDirect ==
  /\ commandsSent = Len(wire)
  /\ \A k \in 1..Len(cbLog) :
       (cbLog[k].role = "orig" /\ ~IsMissing(cbLog[k].error)) =>
         /\ Cardinality(UserCallsOf(cbLog[k].uid)) = 1
         /\ \A e \in UserCallsOf(cbLog[k].uid) :
              /\ userLog[e].error = cbLog[k].error
              /\ userLog[e].data = cbLog[k].data
         /\ Cardinality(WritesOf(cbLog[k].uid)) = 1

\* One safe call answered with a value, another with an error of the server.
C10_Witness ==
  /\ \E k \in 1..Len(cbLog) :
       /\ cbLog[k].role = "orig"
       /\ ~cbLog[k].error.isError
       /\ UserCallsOf(cbLog[k].uid) # {}
  /\ \E k \in 1..Len(cbLog) :
       /\ cbLog[k].role = "orig"
       /\ cbLog[k].error = Error(InternalError)
       /\ UserCallsOf(cbLog[k].uid) # {}

\* The first connection attempt has failed: the stream is closed, and
\* neither a drain at a connect event nor a write has taken place.
ConnectionRefused == sock = "closed" /\ ~ready /\ wire = <<>>

\* C11: unavailability rejection: once the only connection attempt has
\* failed, both queues are empty and every call made, before or after, has
\* had its user callback invoked with the error 'Bloomd is unavailable'.
C11_UnavailableRejects ==
  ConnectionRefused =>
    /\ offlineQueue = <<>>
    /\ commandQueue = <<>>
    /\ \A u \in 1..Len(submitted) :
         \E e \in UserCallsOf(u) : userLog[e].error = Error(Unavailable)

\* C12: reconnect: with a server that accepts connections, a client whose
\* stream was lost is eventually ready again, with every buffered command
\* written and every written command completed.
C12_Reconnects ==
  [](sock = "closed" =>
       <>(ready /\ offlineQueue = <<>> /\ commandQueue = <<>>))

\* C13: dispose is final: nothing is written to a stream that dispose has
\* ended, and after dispose no record is left in a queue: every plain call
\* whose response has not arrived has had its callback invoked with the
\* unavailability error.
C13_DisposeIsFinal ==
  /\ \A j \in 1..Len(wire) : wire[j].sock # "ended"
  /\ sock = "ended" =>
       /\ offlineQueue = <<>>
       /\ commandQueue = <<>>
       /\ \A u \in 1..Len(submitted) :
            (~IsSafeCall(u) /\ Processed(u, "plain") = {}) =>
              \E e \in UserCallsOf(u) : userLog[e].error = Error(Unavailable)

\* C14: after the stream's 'error', 'close' or 'end' the client is not
\* ready, and nothing is written to the lost stream: a command submitted
\* afterwards is appended to offlineQueue.
C14_BufferingAfterLoss ==
  /\ sock = "closed" => ~ready
  /\ \A j \in 1..Len(wire) : wire[j].sock # "closed"

\* The user's API method behind the record processed k-th, and the frame
\* the record was decoded from.
ApiOf(k) == submitted[cbLog[k].uid].api
FrameOf(k) == emitted[cbLog[k].frame]

\* C15: a drop answered 'Filter does not exist' is reported as success: the
\* drop callback receives (no error, true).
C15_DropMissingSucceeds ==
  \A k \in 1..Len(cbLog) :
    (ApiOf(k) = "drop" /\ FrameOf(k) = LineFrame(FilterDoesNotExist)) =>
      \E e \in UserCallsOf(cbLog[k].uid) :
        userLog[e].error = NoError /\ userLog[e].data = BoolData(TRUE)

\* C16: a create answered 'Done' or 'Exists' gives its callback (no error,
\* true); answered any other text, it gives an error carrying that text.
C16_CreateExistsSucceeds ==
  \A k \in 1..Len(cbLog) :
    (ApiOf(k) = "create" /\ ~FrameOf(k).block) =>
      \E e \in UserCallsOf(cbLog[k].uid) :
        IF FrameText(FrameOf(k)) \in {<<"Done">>, <<"Exists">>}
          THEN userLog[e].error = NoError /\ userLog[e].data = BoolData(TRUE)
          ELSE /\ userLog[e].error = Error(FrameText(FrameOf(k)))
               /\ userLog[e].data = NullData

\* What _transform pushes when the whole stream arrives as one chunk.
OneChunk == Transform(NewParser, Bytes).pushed

\* C17: chunk-boundary independence: once every byte of the stream has been
\* given to _transform, in chunks cut anywhere, the frames pushed are those
\* pushed for the stream as one chunk: one frame per response, in order.
C17_ChunkIndependent ==
  fed = Len(Bytes) =>
    /\ emitted = OneChunk
    /\ emitted = [i \in 1..Len(responses) |-> responses[i].frame]

\* C18: completion-callback order: the callbacks of plain commands run in
\* the order the commands were submitted, at the records (cbLog) and at the
\* user (userLog), whatever the stream does: when the callback of a plain
\* call runs, that of every plain call made before it has run.
C18_CompletionOrder ==
  /\ \A k \in 1..Len(cbLog), l \in 1..Len(cbLog) :
       (k < l /\ cbLog[k].role = "plain" /\ cbLog[l].role = "plain") =>
         cbLog[k].seq < cbLog[l].seq
  /\ \A e \in 1..Len(userLog), f \in 1..Len(userLog) :
       (e < f /\ ~IsSafeCall(userLog[e].uid) /\ ~IsSafeCall(userLog[f].uid))
         => userLog[e].uid < userLog[f].uid
  /\ \A f \in 1..Len(userLog), u \in 1..Len(submitted) :
       (u < userLog[f].uid /\ ~IsSafeCall(u) /\ ~IsSafeCall(userLog[f].uid))
         => \E e \in 1..(f - 1) : userLog[e].uid = u

\* Two plain calls, both written and both called back, the first written
\* by _drain and the second by _process.
C18_Witness ==
  \E e \in 1..Len(userLog), f \in 1..Len(userLog) :
    /\ e < f
    /\ ~IsSafeCall(userLog[e].uid)
    /\ ~IsSafeCall(userLog[f].uid)
    /\ \E i \in WritesOf(userLog[e].uid) : wire[i].via = "drain"
    /\ \E j \in WritesOf(userLog[f].uid) : wire[j].via = "process"

\* C19: commandsSent is the number of records ever appended to
\* commandQueue: those still in it and those _onReadable has shifted out
\* of it, one per call of _send, whoever called it and whatever the write
\* returned.
C19_CommandsSentCounts ==
  /\ commandsSent = Len(commandQueue) + Len(cbLog)
  /\ commandsSent = Cardinality({j \in 1..Len(wire) : wire[j].via = "drain"})
                    + Cardinality({j \in 1..Len(wire) : wire[j].via = "process"})

\* A safe call written by _drain, its create and its resubmission, and a
\* write that reported a full buffer.
C19_Witness ==
  /\ \E j \in 1..Len(wire) : wire[j].via = "drain"
  /\ \E j \in 1..Len(wire) : wire[j].role = "create"
  /\ \E j \in 1..Len(wire) : wire[j].role = "retry"
  /\ sock = "open"
  /\ ~ready
  /\ commandsSent >= 4

\* The records that are in a queue, offlineQueue first.
Queued == offlineQueue \o commandQueue

\* C20: a command record is in at most one queue, at most once, and a
\* record that _onReadable has processed is in no queue.
C20_OneQueue ==
  /\ \A i \in 1..Len(Queued), j \in 1..Len(Queued) :
       i # j => Queued[i].seq # Queued[j].seq
  /\ \A k \in 1..Len(cbLog), i \in 1..Len(Queued) :
       Queued[i].seq # cbLog[k].seq

\* One record written by _drain and processed, two more in offlineQueue.
C20_Witness ==
  /\ \E k \in 1..Len(cbLog), j \in 1..Len(wire) :
       wire[j].seq = cbLog[k].seq /\ wire[j].via = "drain"
  /\ Len(offlineQueue) = 2

\* q is p with records shifted off its front.
IsSuffix(q, p) == \E n \in 0..Len(p) : q = SubSeq(p, n + 1, Len(p))

\* The lines written in this step.
NewWrites == {j \in 1..Len(wire') : j > Len(wire)}

\* C21 as claimed: in a step taken while ready is false commandQueue only
\* shrinks, and a command submitted in it is appended to offlineQueue.
C21_OnlyShrinks ==
  [][~ready =>
       /\ IsSuffix(commandQueue', commandQueue)
       /\ nextUid' > nextUid =>
            /\ Len(offlineQueue') = Len(offlineQueue) + 1
            /\ offlineQueue'[Len(offlineQueue')].seq = nextSeq]_vars

\* C21, amended: in a step taken while ready is false commandQueue grows
\* only by a pass of _drain, which moves records from the front of
\* offlineQueue to its back; otherwise it only shrinks, and a command
\* submitted in the step is appended to offlineQueue and not written.
C21_OnlyDrainAppends ==
  [][~ready =>
       /\ \/ IsSuffix(commandQueue', commandQueue)
          \/ /\ NewWrites # {}
             /\ \A j \in NewWrites : wire'[j].via = "drain"
             /\ IsSuffix(offlineQueue', offlineQueue)
             /\ commandQueue' =
                  commandQueue \o SubSeq(offlineQueue, 1,
                                         Len(offlineQueue) - Len(offlineQueue'))
       /\ nextUid' > nextUid =>
            /\ Len(offlineQueue') = Len(offlineQueue) + 1
            /\ offlineQueue'[Len(offlineQueue')].seq = nextSeq
            /\ commandQueue' = commandQueue
            /\ wire' = wire]_vars

\* A pass of _drain has stopped at a full buffer with a record written, and
\* a command submitted since then waits in offlineQueue.
C21_Witness ==
  /\ sock = "open"
  /\ ~ready
  /\ commandQueue # <<>>
  /\ wire[Len(wire)].via = "drain"
  /\ offlineQueue # <<>>
  /\ offlineQueue[Len(offlineQueue)].seq > wire[Len(wire)].seq

\* C22: ready is never true before the connect event, and a step that sets
\* ready leaves the socket connected, offlineQueue empty and no full buffer
\* waiting for its drain event.
C22_ReadyWhenFlushed ==
  /\ [](ready => sock # "connecting")
  /\ [][(~ready /\ ready') =>
          /\ sock' = "open"
          /\ offlineQueue' = <<>>
          /\ ~needDrain']_vars

\* Two buffered commands written by _drain, the second into a full buffer,
\* and ready set by the pass the drain event started.
C22_Witness ==
  /\ ready
  /\ Len(wire) >= 2
  /\ wire[1].via = "drain"
  /\ wire[2].via = "drain"
  /\ preSeq >= 2

\* C23: the receive loop never throws: whatever frame the parser delivers,
\* for whatever command or for none, no exception escapes _onReadable.
C23_NeverThrows == ~crashed

\* The records processed in this step.
NewlyProcessed == {k \in 1..Len(cbLog') : k > Len(cbLog)}

\* What errors leave in place, in every state: the k-th record processed is
\* the k-th written and is decoded from the k-th non-empty frame, whatever
\* the records before it got, and a text that its converter refuses reaches
\* its callback as an error carrying that text.
ErrorsKeepMatching ==
  \A k \in 1..Len(cbLog) :
    /\ cbLog[k].seq = wire[k].seq
    /\ Cardinality({i \in 1..cbLog[k].frame : Truthy(emitted[i])}) = k
    /\ cbLog[k].error.isError =>
         /\ cbLog[k].error = Error(FrameText(FrameOf(k)))
         /\ cbLog[k].data = NullData

C25_KeyedByCallerKeys ==
  \A k \in 1..Len(cbLog) :
    (ApiOf(k) \in {"bulk", "multi"} /\ cbLog[k].data.kind = "map") =>
      LET keys == InitialArray(submitted[cbLog[k].uid].key)
          tokens == FrameText(FrameOf(k))
      IN /\ Len(tokens) = Len(keys)
         /\ cbLog[k].data.map =
              {<<keys[i], tokens[i] = "Yes">> : i \in 1..Len(keys)}

\* The running count of internal errors after k records: one more for a
\* response 'Internal Error', one less, down to zero, for a response that
\* decodes.
RECURSIVE ErrorsAfter(_)
ErrorsAfter(k) ==
  IF k = 0 THEN 0
  ELSE LET before == ErrorsAfter(k - 1) IN
       IF cbLog[k].error = Error(InternalError) THEN before + 1
       ELSE IF ~cbLog[k].error.isError /\ before > 0 THEN before - 1
       ELSE before

\* C26: internal-error ceiling: once the count of internal errors has
\* reached the ceiling the client is unavailable: it is not ready, no
\* record is left in a queue, and every call made has had its user
\* callback invoked.
C26_ErrorCeiling ==
  ErrorsAfter(Len(cbLog)) >= MaxErrors =>
    /\ ~ready
    /\ Queued = <<>>
    /\ \A u \in 1..Len(submitted) : UserCallsOf(u) # {}

\* stream.write would return false: the socket is full, or gone.
WriteRefused == ~(sock = "open" /\ room > 0)

\* C27: full buffer while ready: a command submitted while ready whose
\* write returns false makes the client not ready and is nevertheless
\* appended to commandQueue, its line written once and never again; a
\* command submitted while not ready is appended to offlineQueue and not
\* written.
C27_FullBufferWhileReady ==
  /\ [](\A i \in 1..Len(wire), j \in 1..Len(wire) :
          i # j => wire[i].seq # wire[j].seq)
  /\ [][(ready /\ WriteRefused /\ nextUid' > nextUid) =>
          /\ ~ready'
          /\ Len(commandQueue') = Len(commandQueue) + 1
          /\ commandQueue'[Len(commandQueue')].seq = nextSeq
          /\ Len(wire') = Len(wire) + 1
          /\ wire'[Len(wire')].seq = nextSeq
          /\ offlineQueue' = offlineQueue]_vars
  /\ [][(~ready /\ nextUid' > nextUid) =>
          /\ wire' = wire
          /\ commandQueue' = commandQueue
          /\ Len(offlineQueue') = Len(offlineQueue) + 1
          /\ offlineQueue'[Len(offlineQueue')].seq = nextSeq]_vars

\* A command written by _process into a full buffer and waiting for its
\* response, and a later one buffered behind it, the drain event pending.
C27_Witness ==
  /\ sock = "open"
  /\ needDrain
  /\ ~ready
  /\ commandQueue # <<>>
  /\ wire[Len(wire)].via = "process"
  /\ commandQueue[Len(commandQueue)].seq = wire[Len(wire)].seq
  /\ offlineQueue # <<>>
  /\ offlineQueue[1].seq > wire[Len(wire)].seq

\* The writes a pass of _drain makes before it stops: one per buffered
\* record, up to and including the first the socket refuses.
Min(a, b) == IF a < b THEN a ELSE b
RoomAtPass == IF sock = "connecting" THEN room ELSE MaxRoom
PassWrites == Min(Len(offlineQueue), RoomAtPass + 1)

\* C28: full buffer during drain: a pass of _drain (at the connect event or
\* a drain event) writes the buffered records from the front and stops at
\* once at the first write that returns false; the records behind stay in
\* offlineQueue in their order and ready stays false; ready is set only by
\* a pass that empties offlineQueue with every write accepted.
C28_DrainStopsAtFull ==
  [][(OnConnect \/ OnDrain) =>
       /\ Cardinality(NewWrites) = PassWrites
       /\ \A j \in NewWrites :
            /\ wire'[j].via = "drain"
            /\ wire'[j].seq = offlineQueue[j - Len(wire)].seq
       /\ offlineQueue' =
            SubSeq(offlineQueue, PassWrites + 1, Len(offlineQueue))
       /\ ready' <=> (~ready /\ Len(offlineQueue) <= RoomAtPass)
                     \/ (ready /\ offlineQueue = <<>>)]_vars

\* A pass has stopped at a full buffer: its last write is the last line on
\* the wire, and the record behind it is still at the head of offlineQueue.
C28_Witness ==
  /\ sock = "open"
  /\ ~ready
  /\ needDrain
  /\ wire # <<>>
  /\ wire[Len(wire)].via = "drain"
  /\ offlineQueue # <<>>
  /\ offlineQueue[1].seq = wire[Len(wire)].seq + 1

\* The commands submitted from inside a callback that runs in _onReadable:
\* the create and the resubmission of a safe command.
Reentrant == {"create", "retry"}
ConfirmationTexts == {<<"Done">>, <<"Exists">>}

RECURSIVE Framing(_, _)
Framing(ls, out) ==
  IF ls = <<>> THEN [frames |-> out, rest |-> <<>>]
  ELSE IF ls[1] = START THEN
    LET ends == {i \in 2..Len(ls) : ls[i] = END} IN
    IF ends = {} THEN [frames |-> out, rest |-> ls]
    ELSE LET e == CHOOSE i \in ends : \A j \in ends : i <= j IN
         Framing(SubSeq(ls, e + 1, Len(ls)),
                 Append(out, BlockFrame(SubSeq(ls, 2, e - 1))))
  ELSE Framing(Tail(ls), Append(out, LineFrame(ls[1])))

\* C30: parser framing: every chunk adds to the frames pushed exactly the
\* frames of the whole lines buffered, a block being the lines strictly
\* between START and the first END behind it, an empty block included; a
\* block whose END has not arrived stays in the buffer with no frame pushed
\* for it, and the text behind the last terminator stays in lineData and is
\* no frame.
C30_Framing ==
  /\ [](lines # <<>> =>
          /\ lines[1] = START
          /\ \A i \in 2..Len(lines) : lines[i] # END)
  /\ [](\A k \in 1..Len(emitted) :
          emitted[k].block =>
            \A i \in 1..Len(emitted[k].body) : emitted[k].body[i] # END)
  /\ [][fed' > fed =>
          \E split \in {SplitLines(lineData \o SubSeq(Bytes, fed + 1, fed'),
                                  1, <<>>, <<>>)} :
            \E framed \in {Framing(lines \o SubSeq(split, 1, Len(split) - 1),
                                   <<>>)} :
              /\ emitted' = emitted \o framed.frames
              /\ lines' = framed.rest
              /\ lineData' = split[Len(split)]]_vars

\* An empty block has been pushed as a frame, and the next block waits in
\* the buffer with its first line scanned, its END begun in lineData.
C30_Witness ==
  /\ emitted = <<BlockFrame(<<>>)>>
  /\ lines = <<START, <<"x">>>>
  /\ blockLines = 2
  /\ lineData = <<"E">>

\* C31: scan-advance memo: while a block that began with START waits for
\* its END, blockLines lies between 1 and the number of buffered lines and
\* no line at an index (counted from 0) from 1 up to blockLines is END;
\* when no such block waits, blockLines is 1.
C31_MemoInvariant ==
  /\ (lines # <<>> /\ lines[1] = START) =>
       /\ 1 <= blockLines
       /\ blockLines <= Len(lines)
       /\ \A i \in 1..(blockLines - 1) : lines[i + 1] # END
  /\ (lines = <<>> \/ lines[1] # START) => blockLines = 1

\* A block waits with START and one line behind it scanned, the line's
\* terminator read and nothing of END yet.
C31_Witness ==
  /\ lines = <<START, <<"x">>>>
  /\ lineData = <<>>
  /\ blockLines = Len(lines)
  /\ blockLines > 1

\* C32: BoolList decoding is all-or-nothing: a bulk or multi answered by a
\* line with a token that is neither Yes nor No gets one error carrying the
\* whole line and no map; answered by a line of Yes and No only, it gets a
\* map with an entry for every key the caller asked about.
C32_AllOrNothing ==
  \A k \in 1..Len(cbLog) :
    (ApiOf(k) \in {"bulk", "multi"} /\ ~FrameOf(k).block) =>
      LET line == FrameText(FrameOf(k))
          values == Split(line)
          keys == InitialArray(submitted[cbLog[k].uid].key)
      IN IF \E i \in 1..Len(values) : values[i] \notin {"Yes", "No"}
           THEN cbLog[k].error = Error(line) /\ cbLog[k].data = NullData
           ELSE /\ cbLog[k].error = NoError
                /\ cbLog[k].data.kind = "map"
                /\ \A i \in 1..Len(keys) :
                     \E p \in cbLog[k].data.map : p[1] = keys[i]

\* The line a safe call asks for: the verb, the filter name and the key or
\* the keys the caller gave.
OriginalLine(call) ==
  IF call.api = "setSafe" THEN <<"s", FilterName, call.key>>
  ELSE IF call.api = "checkSafe" THEN <<"c", FilterName, call.key>>
  ELSE IF call.api = "bulkSafe" THEN <<"b", FilterName>> \o InitialArray(call.key)
  ELSE <<"m", FilterName>> \o InitialArray(call.key)

\* C33: a safe command called without a user callback still writes (or
\* buffers) the original command with the filter name and the keys given,
\* and when that is answered 'Filter does not exist' the create follows.
C33_SafeWithoutCallback ==
  \A u \in 1..Len(submitted) :
    ~submitted[u].callback =>
      /\ \/ \E j \in 1..Len(wire) :
              /\ wire[j].uid = u
              /\ wire[j].role = "orig"
              /\ wire[j].line = OriginalLine(submitted[u])
         \/ \E q \in 1..Len(offlineQueue) :
              /\ offlineQueue[q].uid = u
              /\ offlineQueue[q].role = "orig"
              /\ ArgumentsOf(Client, offlineQueue[q])
                   = OriginalLine(submitted[u])
      /\ \A k \in 1..Len(cbLog) :
           (cbLog[k].uid = u /\ cbLog[k].role = "orig"
              /\ IsMissing(cbLog[k].error)) =>
             \/ \E j \in 1..Len(wire) :
                  wire[j].uid = u /\ wire[j].role = "create"
             \/ \E q \in 1..Len(offlineQueue) :
                  offlineQueue[q].uid = u /\ offlineQueue[q].role = "create"

\* C34: ready implies that offlineQueue is empty, and _process writes a
\* record to the socket only when no record waits in offlineQueue.
C34_ReadyMeansFlushed ==
  /\ [](ready => offlineQueue = <<>>)
  /\ [][\A j \in NewWrites :
          wire'[j].via = "process" => offlineQueue = <<>>]_vars

\* Ready again after a flush: a record written by _drain, and behind it one
\* written by _process.
C34_Witness ==
  /\ ready
  /\ \E i \in 1..Len(wire), j \in 1..Len(wire) :
       /\ i < j
       /\ wire[i].via = "drain"
       /\ wire[j].via = "process"

\* The records of role r that the safe call u has caused, written or
\* waiting in offlineQueue.
WrittenAs(u, r) == {j \in WritesOf(u) : wire[j].role = r}
WaitingAs(u, r) ==
  {q \in 1..Len(offlineQueue) :
     offlineQueue[q].uid = u /\ offlineQueue[q].role = r}

\* C35: a safe sequence terminates: one safe call causes at most one create
\* and at most one resubmission, and once the response to the resubmission
\* has been processed the user callback has been invoked, whatever that
\* response is.
C35_SafeTerminates ==
  \A u \in 1..Len(submitted) :
    IsSafeCall(u) =>
      /\ Cardinality(WrittenAs(u, "create"))
           + Cardinality(WaitingAs(u, "create")) <= 1
      /\ Cardinality(WrittenAs(u, "retry"))
           + Cardinality(WaitingAs(u, "retry")) <= 1
      /\ Processed(u, "retry") # {} => UserCallsOf(u) # {}

\* The ranks of the records that wait in a queue.
WaitingSeqs == {Queued[q].seq : q \in 1..Len(Queued)}

\* C36: no callback is invoked twice: no record has its response processed
\* twice, a record whose response has been processed waits in no queue, no
\* record waits twice, and the user callback of a call has run at most once.
C36_NoCallbackTwice ==
  /\ \A k \in 1..Len(cbLog), l \in 1..Len(cbLog) :
       k # l => cbLog[k].seq # cbLog[l].seq
  /\ \A k \in 1..Len(cbLog) : cbLog[k].seq \notin WaitingSeqs
  /\ Cardinality(WaitingSeqs) = Len(Queued)
  /\ \A u \in 1..Len(submitted) : Cardinality(UserCallsOf(u)) <= 1

\* A safe call whose command, create and resubmission have been answered,
\* the first write made by _drain, and whose user callback has run.
C36_Witness ==
  \E u \in 1..Len(submitted) :
    /\ IsSafeCall(u)
    /\ Processed(u, "orig") # {}
    /\ Processed(u, "create") # {}
    /\ Processed(u, "retry") # {}
    /\ Cardinality(UserCallsOf(u)) = 1
    /\ \E j \in WritesOf(u) : wire[j].via = "drain"

\* The ranks of the records in offlineQueue, in commandQueue, and of those
\* whose response has been processed.
OfflineSeqs == {offlineQueue[q].seq : q \in 1..Len(offlineQueue)}
InFlightSeqs == {commandQueue[q].seq : q \in 1..Len(commandQueue)}
ProcessedSeqs == {cbLog[k].seq : k \in 1..Len(cbLog)}

\* C37: no submitted command is lost: every command passed to _process is
\* in offlineQueue, or in commandQueue, or has had its response processed,
\* and in one of the three only; the number submitted is the sum of the
\* three numbers, and the length of commandQueue is commandsSent less the
\* number of responses processed.
C37_NoCommandLost ==
  /\ \A n \in 1..(nextSeq - 1) :
       /\ n \in OfflineSeqs \cup InFlightSeqs \cup ProcessedSeqs
       /\ ~(n \in OfflineSeqs /\ n \in InFlightSeqs)
       /\ ~(n \in OfflineSeqs /\ n \in ProcessedSeqs)
       /\ ~(n \in InFlightSeqs /\ n \in ProcessedSeqs)
  /\ nextSeq - 1 = Len(offlineQueue) + Len(commandQueue) + Len(cbLog)
  /\ Len(commandQueue) = commandsSent - Len(cbLog)

\* One command answered, one written by a write that returned false and
\* not answered yet, and one waiting behind it in offlineQueue.
C37_Witness ==
  /\ cbLog # <<>>
  /\ commandQueue # <<>>
  /\ offlineQueue # <<>>
  /\ needDrain
  /\ ~ready

\* C38: every frame the parser has pushed is consumed by the pass of
\* _onReadable that follows and matched to one record: after a pass no
\* frame is left unread, and each frame, an empty line included, is the
\* frame of one processed response.
C38_EveryFrameMatched ==
  /\ nread = Len(emitted)
  /\ \A i \in 1..Len(emitted) :
       Cardinality({k \in 1..Len(cbLog) : cbLog[k].frame = i}) = 1

\* C39: multi and bulk leave the caller's keys array unchanged: in every
\* state each array of the user holds what the user put in it.
C39_CallerArrayUnchanged ==
  \A a \in UserArrays : arrays[a] = InitialArray(a)

====
